---- MODULE Spec2Model ----
(***************************************************************************)
(* Model of src/decoder/mod.rs of toml-rs: the path-tracking Decoder       *)
(* (new, sub_decoder, err, mismatch), the DecodeError rendering            *)
(* (impl fmt::Display) and the entry points decode / decode_str.           *)
(*                                                                         *)
(* Rust's Option<T> is modelled as a sequence of length at most one:       *)
(* None is <<>> and Some(x) is <<x>>.  Rust strings are TLA+ strings;      *)
(* format!/write! concatenate with \o.                                     *)
(***************************************************************************)
EXTENDS Integers, Sequences, FiniteSets, TLC

\* ------------------------------------------------------------------ bounds
\* Longest chain of decoders (root + derivations) that is explored.
MaxDepth == 3
\* Width of usize in the model (the real width is 32 or 64).
UsizeBits == 3

\* ------------------------------------------------------------- Option<T>
None == <<>>
Some(x) == <<x>>
Option(S) == {None} \cup {Some(x) : x \in S}

\* --------------------------------------------------------------- Value
\* Value::Table(t)
Table(t) == [type_str |-> "table", data |-> t]
\* Tables a parse can produce.
Tables == {"{}", "{port=8080}"}
\* The values explored: each carries its tag and an opaque payload.
Value ==
    { [type_str |-> "string",  data |-> "42"],
      [type_str |-> "integer", data |-> "42"],
      Table("{}") }

\* -------------------------------------------------------------- Decoder
\* Decoder::new
new(toml) == [toml |-> Some(toml), cur_field |-> None]

\* sub_decoder joining without the separator: format!("{}{}", s, field).
sub_decoder_nodot(self, toml, field) ==
    [ toml |-> toml,
      cur_field |->
          IF Len(field) = 0
          THEN self.cur_field
          ELSE IF self.cur_field = None
               THEN Some(field)
               ELSE Some(self.cur_field[1] \o field) ]

\* sub_decoder forgetting the parent's path: Some(format!("{}", field)).
sub_decoder_forget(self, toml, field) ==
    [ toml |-> toml,
      cur_field |-> IF Len(field) = 0 THEN self.cur_field ELSE Some(field) ]

\* sub_decoder without the test for an empty field name.
sub_decoder_noempty(self, toml, field) ==
    [ toml |-> toml,
      cur_field |->
          IF self.cur_field = None
          THEN Some(field)
          ELSE Some(self.cur_field[1] \o "." \o field) ]

\* Decoder::sub_decoder
sub_decoder(self, toml, field) ==
    [ toml |-> toml,
      cur_field |->
          IF Len(field) = 0
          THEN self.cur_field
          ELSE IF self.cur_field = None
               THEN Some(field)
               ELSE Some(self.cur_field[1] \o "." \o field) ]

\* ---------------------------------------------------- DecodeErrorKind
ApplicationError(m)   == [tag |-> "ApplicationError", msg |-> m]
ExpectedField(t)      == [tag |-> "ExpectedField", expected_type |-> t]
ExpectedType(e, f)    == [tag |-> "ExpectedType", expected |-> e, found |-> f]
ExpectedMapKey(i)     == [tag |-> "ExpectedMapKey", idx |-> i]
ExpectedMapElement(i) == [tag |-> "ExpectedMapElement", idx |-> i]
NoEnumVariants        == [tag |-> "NoEnumVariants"]
NilTooLong            == [tag |-> "NilTooLong"]
SyntaxError           == [tag |-> "SyntaxError"]
EndOfStream           == [tag |-> "EndOfStream"]

\* Decoder::err
err(self, kind) == [field |-> self.cur_field, kind |-> kind]

\* mismatch with the arguments of ExpectedType in the wrong order.
mismatch_swapped(self, expected, found) ==
    IF found # None
    THEN err(self, ExpectedType(found[1].type_str, expected))
    ELSE err(self, ExpectedField(Some(expected)))

\* Decoder::mismatch
mismatch(self, expected, found) ==
    IF found # None
    THEN err(self, ExpectedType(expected, found[1].type_str))
    ELSE err(self, ExpectedField(Some(expected)))

\* ------------------------------------------------ fmt::Display
\* The character ` (a string literal cannot hold it on its own).
Backtick == SubSeq("`'", 1, 1)

\* Largest usize.
USIZE_MAX == 2^UsizeBits - 1

\* a + b on usize: None is the panic of a build with overflow checks,
\* a build without them wraps.
usize_add(a, b, overflow_checks) ==
    IF a + b <= USIZE_MAX
    THEN Some(a + b)
    ELSE IF overflow_checks THEN None ELSE Some((a + b) % (2^UsizeBits))

Digit(d) == SubSeq("0123456789", d + 1, d + 1)

\* "{}" applied to a usize: its decimal digits.
RECURSIVE Dec(_)
Dec(n) == IF n < 10 THEN Digit(n) ELSE Dec(n \div 10) \o Digit(n % 10)

\* The ExpectedField arm without its Some("table") case.
fmt_ExpectedField_notable(expected_type) ==
    IF expected_type # None
    THEN "expected a value of type " \o Backtick \o expected_type[1]
             \o Backtick
    ELSE "expected a value"

\* The ExpectedField arm of fmt.
fmt_ExpectedField(expected_type) ==
    IF expected_type = Some("table")
    THEN "expected a section"
    ELSE IF expected_type # None
         THEN "expected a value of type " \o Backtick \o expected_type[1]
                  \o Backtick
         ELSE "expected a value"

\* humanize testing for the tag of a table instead of "section".
humanize_table(s) ==
    IF s = "table"
    THEN "a section"
    ELSE "a value of type " \o Backtick \o s \o Backtick

\* fn humanize inside the ExpectedType arm.
humanize(s) ==
    IF s = "section"
    THEN "a section"
    ELSE "a value of type " \o Backtick \o s \o Backtick

\* The ExpectedType arm of fmt.
fmt_ExpectedType(expected, found) ==
    "expected " \o humanize(expected) \o ", but found " \o humanize(found)

\* The ExpectedMapKey / ExpectedMapElement arms: None when idx + 1 panics.
fmt_Expected_at_least(idx, what, overflow_checks) ==
    LET n == usize_add(idx, 1, overflow_checks)
    IN  IF n = None
        THEN None
        ELSE Some("expected at least " \o Dec(n[1]) \o what)

\* The match on self.kind in fmt: the text written, None on a panic.
fmt_kind(kind, overflow_checks) ==
    CASE kind.tag = "ApplicationError"   -> Some(kind.msg)
      [] kind.tag = "ExpectedField"      ->
             Some(fmt_ExpectedField(kind.expected_type))
      [] kind.tag = "ExpectedType"       ->
             Some(fmt_ExpectedType(kind.expected, kind.found))
      [] kind.tag = "ExpectedMapKey"     ->
             fmt_Expected_at_least(kind.idx, " keys", overflow_checks)
      [] kind.tag = "ExpectedMapElement" ->
             fmt_Expected_at_least(kind.idx, " elements", overflow_checks)
      [] kind.tag = "NoEnumVariants"     ->
             Some("expected an enum variant to decode to")
      [] kind.tag = "NilTooLong"         -> Some("expected 0-length string")
      [] kind.tag = "SyntaxError"        -> Some("syntax error")
      [] kind.tag = "EndOfStream"        -> Some("end of stream")

\* The field suffix written for an absent field too (an empty key).
fmt_field_always(field) ==
    " for the key " \o Backtick
        \o (IF field # None THEN field[1] ELSE "") \o Backtick

\* The match on self.field in fmt.
fmt_field(field) ==
    IF field # None
    THEN " for the key " \o Backtick \o field[1] \o Backtick
    ELSE ""

\* <DecodeError as fmt::Display>::fmt, seen through to_string().
fmt(self, overflow_checks) ==
    LET k == fmt_kind(self.kind, overflow_checks)
    IN  IF k = None
        THEN [panicked |-> TRUE, text |-> ""]
        ELSE [panicked |-> FALSE, text |-> k[1] \o fmt_field(self.field)]

\* ------------------------------------------------- decode / decode_str
\* Result<T, DecodeError> of the driver (Decodable::decode / deserialize).
Ok(v) == [ok |-> TRUE, val |-> v]
Err(e) == [ok |-> FALSE, err |-> e]

\* Result::ok
ok(r) == IF r.ok THEN Some(r.val) ELSE None

\* decode: the decoder handed to the driver and the value returned, the
\* driver answering r.
decode(toml, r) == [driven |-> Some(new(toml)), ret |-> ok(r)]

\* decode_str decoding an empty document when the parse fails.
decode_str_default(parsed, r) ==
    IF parsed = None
    THEN decode(Table("{}"), r)
    ELSE decode(Table(parsed[1]), r)

\* decode_str: the parser answering parsed, the driver (if called) r.
decode_str(parsed, r) ==
    IF parsed = None
    THEN [driven |-> None, ret |-> None]
    ELSE decode(Table(parsed[1]), r)

\* ------------------------------------------------------------ state
\* chain : the decoders built so far, chain[1] the root, chain[i+1] derived
\*         from chain[i]
\* hist  : hist[i] is the call that built chain[i]
\* last  : the most recent call with its arguments and its return value
VARIABLES chain, hist, last
vars == <<chain, hist, last>>

\* Field names handed to sub_decoder ("" is what sequence positions use).
Fields == {"", "a", "b"}
\* Type names requested of mismatch.
Expected == {"table", "integer"}
\* Kinds handed to err.
ErrKinds == {NoEnumVariants, ExpectedMapElement(0)}
\* Values a driver can produce and the answers it can give.
Targets == {"t1", "t2"}
DriverResults ==
    {Ok(t) : t \in Targets}
        \cup {Err([field |-> Some("port"),
                   kind |-> ExpectedType("string", "integer")])}
\* Documents handed to decode_str.
Texts == {"", "port = 8080"}

\* The errors handed to Display.
Names == {"table", "section", "string", "sections"}
Paths == {"a", "a.b"}
Usize == 0..USIZE_MAX
Kinds ==
    {ApplicationError(m) : m \in {"", "out of range"}}
        \cup {ExpectedField(t) : t \in Option(Names)}
        \cup {ExpectedType(e, f) : e \in Names, f \in Names}
        \cup {ExpectedMapKey(i) : i \in Usize}
        \cup {ExpectedMapElement(i) : i \in Usize}
        \cup {NoEnumVariants, NilTooLong, SyntaxError, EndOfStream}
DecodeError == {[field |-> p, kind |-> k] : p \in Option(Paths), k \in Kinds}

Init ==
    /\ \E v \in Value :
           /\ chain = <<new(v)>>
           /\ hist = <<[op |-> "new", toml |-> Some(v), field |-> ""]>>
    /\ last = [op |-> "new"]

SubDecoder(toml, field) ==
    /\ Len(chain) < MaxDepth
    /\ chain' = Append(chain, sub_decoder(chain[Len(chain)], toml, field))
    /\ hist' = Append(hist, [op |-> "sub_decoder", toml |-> toml,
                             field |-> field])
    /\ last' = [op |-> "sub_decoder", toml |-> toml, field |-> field]

MismatchCall(i, expected, found) ==
    /\ last' = [op |-> "mismatch", self |-> i, expected |-> expected,
                found |-> found, ret |-> mismatch(chain[i], expected, found)]
    /\ UNCHANGED <<chain, hist>>

ErrCall(i, kind) ==
    /\ last' = [op |-> "err", self |-> i, kind |-> kind,
                ret |-> err(chain[i], kind)]
    /\ UNCHANGED <<chain, hist>>

Decode(toml, r) ==
    /\ last' = [op |-> "decode", toml |-> toml, answer |-> r,
                out |-> decode(toml, r)]
    /\ UNCHANGED <<chain, hist>>

DecodeStr(s, parsed, r) ==
    /\ last' = [op |-> "decode_str", s |-> s, parsed |-> parsed,
                answer |-> r, out |-> decode_str(parsed, r)]
    /\ UNCHANGED <<chain, hist>>

Display(e, overflow_checks) ==
    /\ last' = [op |-> "fmt", self |-> e, overflow_checks |-> overflow_checks,
                ret |-> fmt(e, overflow_checks)]
    /\ UNCHANGED <<chain, hist>>

Next ==
    \/ \E t \in Option(Value), f \in Fields : SubDecoder(t, f)
    \/ \E i \in 1..Len(chain), e \in Expected, t \in Option(Value) :
           MismatchCall(i, e, t)
    \/ \E i \in 1..Len(chain), k \in ErrKinds : ErrCall(i, k)
    \/ \E v \in Value, r \in DriverResults : Decode(v, r)
    \/ \E s \in Texts, p \in Option(Tables), r \in DriverResults :
           DecodeStr(s, p, r)

\* The decoder and the entry points.
Spec == Init /\ [][Next]_vars

NextDisplay == \E e \in DecodeError, c \in BOOLEAN : Display(e, c)

\* The rendering of errors.
SpecDisplay == Init /\ [][NextDisplay]_vars
\* ======================================================= the decoder's path
PathLen(d) == IF d.cur_field = None THEN 0 ELSE Len(d.cur_field[1])

\* p is a leading part of q (both Option<String>).
IsPrefix(p, q) ==
    \/ p = None
    \/ /\ q # None
       /\ Len(p[1]) <= Len(q[1])
       /\ SubSeq(q[1], 1, Len(p[1])) = p[1]

\* "P.f", or "f" at the root.
Dotted(P, f) == IF P = None THEN Some(f) ELSE Some(P[1] \o "." \o f)

\* C1 as stated: every child derived for a field name f has path "P.f",
\* or "f" when its parent is at the root, whatever f is.
C1_ChildPathIsParentDotField ==
    \A i \in 1..(Len(chain) - 1) :
        chain[i + 1].cur_field = Dotted(chain[i].cur_field, hist[i + 1].field)

\* C1 amended: every child derived for a NON-EMPTY field name f has path
\* "P.f", or "f" when its parent is at the root; for the empty name the
\* child's path is the parent's.
C1_ChildPathIsParentDotNonEmptyField ==
    \A i \in 1..(Len(chain) - 1) :
        IF hist[i + 1].field # ""
        THEN chain[i + 1].cur_field
                 = Dotted(chain[i].cur_field, hist[i + 1].field)
        ELSE chain[i + 1].cur_field = chain[i].cur_field

\* A child of a decoder at "a" derived for "b" is at "a.b".
C1_Witness ==
    /\ Len(chain) >= 3
    /\ hist[2].field = "a" /\ hist[3].field = "b"
    /\ chain[2].cur_field = Some("a")
    /\ chain[3].cur_field = Some("a.b")

\* C8 as stated: along a chain of derivations the path strictly grows at
\* every derivation and keeps the parent's path as its leading part.
C8_PathStrictlyGrows ==
    \A i \in 1..(Len(chain) - 1) :
        /\ PathLen(chain[i + 1]) > PathLen(chain[i])
        /\ IsPrefix(chain[i].cur_field, chain[i + 1].cur_field)

\* C8 amended: along a chain of derivations the path never shrinks, every
\* earlier decoder's path is the leading part of every later one's, and the
\* path strictly grows at each derivation with a non-empty field name (it is
\* unchanged by a derivation with the empty name).
C8_PathGrowsOnNonEmptyField ==
    /\ \A i \in 1..Len(chain) : \A j \in i..Len(chain) :
           /\ PathLen(chain[j]) >= PathLen(chain[i])
           /\ IsPrefix(chain[i].cur_field, chain[j].cur_field)
    /\ \A i \in 1..(Len(chain) - 1) :
           IF hist[i + 1].field # ""
           THEN PathLen(chain[i + 1]) > PathLen(chain[i])
           ELSE PathLen(chain[i + 1]) = PathLen(chain[i])

\* A chain with a growing derivation followed by one that does not grow.
C8_Witness ==
    /\ Len(chain) >= 3
    /\ hist[2].field = "b" /\ hist[3].field = ""
    /\ PathLen(chain[1]) = 0 /\ PathLen(chain[2]) = 1
    /\ PathLen(chain[3]) = 1

\* The non-empty names among hist[2..i].field, in derivation order.
RECURSIVE NonEmptyFields(_)
NonEmptyFields(i) ==
    IF i < 2
    THEN <<>>
    ELSE IF hist[i].field = ""
         THEN NonEmptyFields(i - 1)
         ELSE Append(NonEmptyFields(i - 1), hist[i].field)

RECURSIVE JoinDot(_)
JoinDot(fs) ==
    IF Len(fs) = 1 THEN fs[1] ELSE fs[1] \o "." \o JoinDot(Tail(fs))

\* C10: after the derivations f1..fn from Decoder::new the path is None if
\* every fi is empty and otherwise the non-empty fi joined by "." in order;
\* an empty name leaves the child at its parent's path; the child's value is
\* the Option<Value> passed in; and every decoder of the chain still has the
\* path and the value it was built with.
C10_PathIsJoinOfNonEmptyFields ==
    \A i \in 1..Len(chain) :
        /\ chain[i].toml = hist[i].toml
        /\ chain[i].cur_field =
               IF NonEmptyFields(i) = <<>>
               THEN None
               ELSE Some(JoinDot(NonEmptyFields(i)))
        /\ (i > 1 /\ hist[i].field = "") =>
               chain[i].cur_field = chain[i - 1].cur_field

\* Two derivations with empty names stay at the root; "a" then "" stays at
\* "a" and carries the absent value passed in.
C10_Witness ==
    /\ Len(chain) >= 3
    /\ hist[2].field = "a" /\ hist[3].field = ""
    /\ hist[3].toml = None
    /\ chain[3] = [toml |-> None, cur_field |-> Some("a")]
    /\ chain[1].cur_field = None /\ chain[1].toml # None

\* ================================================================= errors
\* C3: mismatch(K, found) at a decoder with path P returns one DecodeError
\* with field P and kind ExpectedType(K, tag of the value) when a value is
\* there and ExpectedField(Some(K)) when none is; err returns field P with
\* the kind given; neither changes any decoder.
C3_MismatchIsLocatedError ==
    /\ [](last.op = "mismatch" =>
             /\ DOMAIN last.ret = {"field", "kind"}
             /\ last.ret.field = chain[last.self].cur_field
             /\ last.ret.kind =
                    IF last.found = None
                    THEN [tag |-> "ExpectedField",
                          expected_type |-> <<last.expected>>]
                    ELSE [tag |-> "ExpectedType", expected |-> last.expected,
                          found |-> last.found[1].type_str])
    /\ [](last.op = "err" =>
             last.ret = [field |-> chain[last.self].cur_field,
                         kind |-> last.kind])
    /\ [][last'.op \in {"mismatch", "err"} => chain' = chain]_vars

\* A table was asked for at "a.b" where a string is.
C3_Witness ==
    /\ last.op = "mismatch"
    /\ chain[last.self].cur_field = Some("a.b")
    /\ last.expected = "table"
    /\ last.found # None /\ last.found[1].type_str = "string"
    /\ last.ret = [field |-> Some("a.b"),
                   kind |-> [tag |-> "ExpectedType", expected |-> "table",
                             found |-> "string"]]

\* C9: decode(value) hands the driver a root decoder (toml Some(value), path
\* None) and returns Some(v) exactly when the driver answers Ok(v), None on
\* any Err; decode_str returns None without decoding when the parse fails
\* and otherwise what decode returns for Table(parsed document).
C9_DecodeIsOkOfDriver ==
    /\ last.op = "decode" =>
           /\ last.out.driven =
                  Some([toml |-> Some(last.toml), cur_field |-> None])
           /\ last.out.ret =
                  IF last.answer.ok THEN Some(last.answer.val) ELSE None
    /\ last.op = "decode_str" =>
           IF last.parsed = None
           THEN last.out.ret = None /\ last.out.driven = None
           ELSE /\ last.out.driven =
                       Some([toml |-> Some([type_str |-> "table",
                                            data |-> last.parsed[1]]),
                             cur_field |-> None])
                /\ last.out.ret =
                       IF last.answer.ok THEN Some(last.answer.val) ELSE None

\* A parse failure although the driver would have answered Ok.
C9_Witness ==
    /\ last.op = "decode_str"
    /\ last.parsed = None
    /\ last.answer.ok
    /\ last.out.ret = None

\* ============================================================== rendering
Quoted(s) == Backtick \o s \o Backtick

StartsWith(text, p) ==
    Len(p) <= Len(text) /\ SubSeq(text, 1, Len(p)) = p

\* The rendering is p, followed by nothing when the error has no field.
RendersKindAs(p) ==
    /\ ~last.ret.panicked
    /\ StartsWith(last.ret.text, p)
    /\ last.self.field = None => last.ret.text = p

\* C2: ExpectedType("table", "string") with field "a.b" renders as
\* expected a section, but found a value of type `string` for the key `a.b`
C2_TableMismatchRendersAsSection ==
    (/\ last.op = "fmt"
     /\ last.self = [field |-> Some("a.b"),
                     kind |-> [tag |-> "ExpectedType", expected |-> "table",
                               found |-> "string"]])
        => /\ ~last.ret.panicked
           /\ last.ret.text =
                  "expected a section, but found a value of type "
                      \o Quoted("string") \o " for the key " \o Quoted("a.b")

\* C4: whenever the rendering returns, the text is the text of the kind
\* followed by " for the key `<path>`" when the field is Some(<path>) and by
\* nothing when it is None; it fails to return only for an index kind whose
\* idx + 1 overflows in a build with overflow checks.
C4_FieldSuffix ==
    last.op = "fmt" =>
        /\ last.ret.panicked <=>
               /\ last.self.kind.tag
                      \in {"ExpectedMapKey", "ExpectedMapElement"}
               /\ last.self.kind.idx = USIZE_MAX
               /\ last.overflow_checks
        /\ ~last.ret.panicked =>
               LET kind_text ==
                       fmt_kind(last.self.kind, last.overflow_checks)[1]
               IN  last.ret.text =
                       IF last.self.field = None
                       THEN kind_text
                       ELSE kind_text \o " for the key "
                                \o Quoted(last.self.field[1])

\* One of the nine kinds rendered with a field and one without.
C4_Witness ==
    /\ last.op = "fmt"
    /\ last.self = [field |-> Some("a.b"), kind |-> NilTooLong]
    /\ last.ret.text = "expected 0-length string for the key " \o Quoted("a.b")

\* C5: ExpectedType(E, F) renders as "expected a value of type `E`, but
\* found a value of type `F`", each side being "a section" exactly when its
\* name is "section".
C5_TypeMismatchText ==
    (last.op = "fmt" /\ last.self.kind.tag = "ExpectedType") =>
        LET side(n) == IF n = "section"
                       THEN "a section"
                       ELSE "a value of type " \o Quoted(n)
        IN  RendersKindAs("expected " \o side(last.self.kind.expected)
                              \o ", but found " \o side(last.self.kind.found))

\* "section" on one side and "table" on the other.
C5_Witness ==
    /\ last.op = "fmt"
    /\ last.self = [field |-> None,
                    kind |-> [tag |-> "ExpectedType", expected |-> "section",
                              found |-> "table"]]
    /\ last.ret.text =
           "expected a section, but found a value of type " \o Quoted("table")

\* C6: ExpectedField renders as "expected a section" for Some("table"), as
\* "expected a value of type `T`" for every other Some(T) and as "expected a
\* value" for None.
C6_ExpectedFieldText ==
    (last.op = "fmt" /\ last.self.kind.tag = "ExpectedField") =>
        LET t == last.self.kind.expected_type
        IN  RendersKindAs(IF t = None
                          THEN "expected a value"
                          ELSE IF t[1] = "table"
                               THEN "expected a section"
                               ELSE "expected a value of type " \o Quoted(t[1]))

\* ExpectedField(Some("table")) with no field.
C6_Witness ==
    /\ last.op = "fmt"
    /\ last.self = [field |-> None,
                    kind |-> [tag |-> "ExpectedField",
                              expected_type |-> <<"table">>]]
    /\ last.ret.text = "expected a section"

\* C7: for every usize idx, ExpectedMapKey(idx) renders as "expected at least
\* N keys" and ExpectedMapElement(idx) as "expected at least N elements" with
\* N = idx + 1, at the largest idx too (no wrap to 0, no failed rendering).
C7_IndexPlusOne ==
    (/\ last.op = "fmt"
     /\ last.self.kind.tag \in {"ExpectedMapKey", "ExpectedMapElement"})
        => RendersKindAs("expected at least " \o Dec(last.self.kind.idx + 1)
                             \o (IF last.self.kind.tag = "ExpectedMapKey"
                                 THEN " keys"
                                 ELSE " elements"))
====
